---- MODULE Spec2Model ----
(***************************************************************************)
(* Model of the YouthGuide NA scraper aggregator:                          *)
(*   src/scrapers/base_scraper.py  (clean_text, extract_date,              *)
(*       parse_month_date, generate_id, normalize_opportunity,             *)
(*       validate_opportunity, remove_duplicates, write_json)              *)
(*   src/scrapers/run_all.py       (discover_scrapers, run_scraper,        *)
(*       aggregate_opportunities, get_sources, main, __main__)             *)
(*                                                                         *)
(* Python strings are sequences of one-character atoms; a Python value is  *)
(* a record [t, s, b] tagged "str", "bool" or "none"; a dict is a function *)
(* from its keys to values.  SHA-256 is idealised as collision free.       *)
(***************************************************************************)
EXTENDS Integers, Sequences, FiniteSets, TLC

VARIABLES
    pc,                  \* where the process is: main's position, or a terminal state
    scrapers,            \* main: the module names discover_scrapers returned
    outcomes,            \* history: what each run_scraper call did, in run order
    all_opportunities,   \* main: the raw records collected so far
    scraper_stats,       \* main: module name -> count
    final_opportunities, \* main: what aggregate_opportunities returned
    output_data,         \* main: the snapshot handed to write_json
    fs,                  \* the file system: data directory, target file, temp file
    previous,            \* history: the target file's content when the run started
    temp_path,           \* write_json: TRUE once mkstemp has bound temp_path
    success,             \* main: what write_json returned
    exit_code,           \* the process exit status
    today,               \* the date datetime.now() currently gives
    arg,                 \* library harness: the input of the call
    res                  \* library harness: the call and its result

vars ==
    <<pc, scrapers, outcomes, all_opportunities, scraper_stats,
      final_opportunities, output_data, fs, previous, temp_path, success,
      exit_code, today, arg, res>>

(***************************************************************************)
(* Characters and strings                                                  *)
(***************************************************************************)

\* U+00A0, carriage return and line feed, each one character
NBSP == "NBSP"

CR == "CR"

LF == "LF"

\* what Python's \s and str.strip() treat as whitespace (of the characters used)
Whitespace == {" ", LF, CR, NBSP}

\* code point of a character: Python compares strings code point by code point
Ord(c) ==
    CASE c = LF -> 10
      [] c = CR -> 13
      [] c = " " -> 32
      [] c = "#" -> 35
      [] c = "-" -> 45
      [] c = "0" -> 48
      [] c = "1" -> 49
      [] c = "2" -> 50
      [] c = "3" -> 51
      [] c = "4" -> 52
      [] c = "5" -> 53
      [] c = "6" -> 54
      [] c = "<" -> 60
      [] c = ">" -> 62
      [] c = "A" -> 65
      [] c = "B" -> 66
      [] c = "F" -> 70
      [] c = "N" -> 78
      [] c = "T" -> 84
      [] c = "_" -> 95
      [] c = "a" -> 97
      [] c = "b" -> 98
      [] c = "e" -> 101
      [] c = "f" -> 102
      [] c = "l" -> 108
      [] c = "n" -> 110
      [] c = "o" -> 111
      [] c = "r" -> 114
      [] c = "s" -> 115
      [] c = "t" -> 116
      [] c = "u" -> 117
      [] c = NBSP -> 160
      [] OTHER -> 0

\* str.lower() on one character
LowerChar(c) ==
    CASE c = "A" -> "a"
      [] c = "B" -> "b"
      [] c = "C" -> "c"
      [] c = "D" -> "d"
      [] c = "E" -> "e"
      [] c = "F" -> "f"
      [] c = "G" -> "g"
      [] c = "H" -> "h"
      [] c = "I" -> "i"
      [] c = "J" -> "j"
      [] c = "K" -> "k"
      [] c = "L" -> "l"
      [] c = "M" -> "m"
      [] c = "N" -> "n"
      [] c = "O" -> "o"
      [] c = "P" -> "p"
      [] c = "Q" -> "q"
      [] c = "R" -> "r"
      [] c = "S" -> "s"
      [] c = "T" -> "t"
      [] c = "U" -> "u"
      [] c = "V" -> "v"
      [] c = "W" -> "w"
      [] c = "X" -> "x"
      [] c = "Y" -> "y"
      [] c = "Z" -> "z"
      [] OTHER -> c

\* str.lower()
Lower(s) == [i \in 1..Len(s) |-> LowerChar(s[i])]

\* s[i:] for a 1-based i
Drop(s, n) == SubSeq(s, n + 1, Len(s))

\* str < str: lexicographic on code points
RECURSIVE StrLess(_, _)
StrLess(s, u) ==
    IF u = <<>> THEN FALSE
    ELSE IF s = <<>> THEN TRUE
    ELSE IF Ord(Head(s)) # Ord(Head(u)) THEN Ord(Head(s)) < Ord(Head(u))
    ELSE StrLess(Tail(s), Tail(u))

\* re.sub(r'<[^>]+>', '', text): a '<', one or more non-'>' characters, a '>'
RECURSIVE RemoveTags(_)
RemoveTags(s) ==
    IF s = <<>> THEN <<>>
    ELSE LET close == {j \in 2..Len(s) : s[j] = ">"}
             first == IF close = {} THEN 0
                      ELSE CHOOSE j \in close : \A k \in close : j <= k
         IN  IF Head(s) = "<" /\ first >= 3
             THEN RemoveTags(Drop(s, first))
             ELSE <<Head(s)>> \o RemoveTags(Tail(s))

\* re.sub(r'\s+', ' ', text): every run of whitespace becomes one space
RECURSIVE CollapseWhitespace(_)
CollapseWhitespace(s) ==
    IF s = <<>> THEN <<>>
    ELSE IF Head(s) \in Whitespace
         THEN IF Len(s) >= 2 /\ s[2] \in Whitespace
              THEN CollapseWhitespace(Tail(s))
              ELSE <<" ">> \o CollapseWhitespace(Tail(s))
         ELSE <<Head(s)>> \o CollapseWhitespace(Tail(s))

RECURSIVE LStrip(_)
LStrip(s) ==
    IF s # <<>> /\ Head(s) \in Whitespace THEN LStrip(Tail(s)) ELSE s

RECURSIVE RStrip(_)
RStrip(s) ==
    IF s # <<>> /\ s[Len(s)] \in Whitespace
    THEN RStrip(SubSeq(s, 1, Len(s) - 1))
    ELSE s

Strip_leading_only(s) == LStrip(s)

\* str.strip()
Strip(s) == RStrip(LStrip(s))

\* str.replace(old, new) for a one-character old; new is a string
RECURSIVE Replace(_, _, _)
Replace(s, old, new) ==
    IF s = <<>> THEN <<>>
    ELSE (IF Head(s) = old THEN new ELSE <<Head(s)>>) \o Replace(Tail(s), old, new)

clean_text(text) ==
    IF text = <<>> THEN <<>>
    ELSE Replace(Replace(Strip(CollapseWhitespace(RemoveTags(text))),
                         NBSP, <<" ">>), CR, <<>>)

(***************************************************************************)
(* Python values and dicts                                                 *)
(***************************************************************************)

Str(s) == [t |-> "str", s |-> s, b |-> FALSE]

Bool(b) == [t |-> "bool", s |-> <<>>, b |-> b]

None == [t |-> "none", s |-> <<>>, b |-> FALSE]

\* bool(v): the truth value Python's `not v` / `if v` uses
Truthy(v) ==
    CASE v.t = "str" -> v.s # <<>>
      [] v.t = "bool" -> v.b
      [] OTHER -> FALSE

\* str(v), also what an f-string field formats
PyStr(v) ==
    CASE v.t = "str" -> v.s
      [] v.t = "bool" -> IF v.b THEN <<"T", "r", "u", "e">>
                         ELSE <<"F", "a", "l", "s", "e">>
      [] OTHER -> <<"N", "o", "n", "e">>

\* dict.get(key): None when the key is missing
Get(opp, key) == IF key \in DOMAIN opp THEN opp[key] ELSE None

\* dict.get(key, default)
GetOr(opp, key, default) == IF key \in DOMAIN opp THEN opp[key] ELSE default

(***************************************************************************)
(* base_scraper.py: extract_date                                           *)
(***************************************************************************)

\* the characters \d matches (of the characters used)
Digits == {"0", "1", "2", "3", "4", "5", "6", "7", "8", "9"}

\* the characters [a-z] matches under re.IGNORECASE
Letters ==
    {"a", "b", "c", "d", "e", "f", "g", "h", "i", "j", "k", "l", "m",
     "n", "o", "p", "q", "r", "s", "t", "u", "v", "w", "x", "y", "z",
     "A", "B", "C", "D", "E", "F", "G", "H", "I", "J", "K", "L", "M",
     "N", "O", "P", "Q", "R", "S", "T", "U", "V", "W", "X", "Y", "Z"}

\* text[i] exists and is in the class C
CharAt(text, i, C) == i >= 1 /\ i <= Len(text) /\ text[i] \in C

\* \d{n} matches at i
DigitsAt(text, i, n) == \A k \in i..(i + n - 1) : CharAt(text, k, Digits)

\* str.zfill(2)
ZFill2(s) ==
    IF Len(s) = 0 THEN <<"0", "0">>
    ELSE IF Len(s) = 1 THEN <<"0">> \o s
    ELSE s

\* the dict `months` of parse_month_date, as pairs in the order of the
\* alternatives of the third pattern
Months ==
    <<<<<<"j", "a", "n">>, <<"0", "1">>>>,
     <<<<"f", "e", "b">>, <<"0", "2">>>>,
     <<<<"m", "a", "r">>, <<"0", "3">>>>,
     <<<<"a", "p", "r">>, <<"0", "4">>>>,
     <<<<"m", "a", "y">>, <<"0", "5">>>>,
     <<<<"j", "u", "n">>, <<"0", "6">>>>,
     <<<<"j", "u", "l">>, <<"0", "7">>>>,
     <<<<"a", "u", "g">>, <<"0", "8">>>>,
     <<<<"s", "e", "p">>, <<"0", "9">>>>,
     <<<<"o", "c", "t">>, <<"1", "0">>>>,
     <<<<"n", "o", "v">>, <<"1", "1">>>>,
     <<<<"d", "e", "c">>, <<"1", "2">>>>>>

\* months.get(month.lower()[:3], '01')
MonthNum(month) ==
    LET key == SubSeq(Lower(month), 1, 3)
        hits == {m \in 1..Len(Months) : Months[m][1] = key}
    IN  IF hits = {} THEN <<"0", "1">> ELSE Months[CHOOSE m \in hits : TRUE][2]

parse_month_date(month, day, year) ==
    year \o <<"-">> \o MonthNum(month) \o <<"-">> \o ZFill2(day)

\* the ways \d{1,2} ... \d{1,2} can split, in the order a greedy match with
\* backtracking tries them
OneOrTwo == <<<<2, 2>>, <<2, 1>>, <<1, 2>>, <<1, 1>>>>

\* (\d{1,2})[/-](\d{1,2})[/-](\d{4}) matches at i with groups of a and b digits
DayFirstAt(text, i, a, b) ==
    /\ DigitsAt(text, i, a)
    /\ CharAt(text, i + a, {"/", "-"})
    /\ DigitsAt(text, i + a + 1, b)
    /\ CharAt(text, i + a + 1 + b, {"/", "-"})
    /\ DigitsAt(text, i + a + b + 2, 4)

\* (\d{4})-(\d{1,2})-(\d{1,2}) matches at i with groups of b and c digits
YearFirstAt(text, i, b, c) ==
    /\ DigitsAt(text, i, 4)
    /\ CharAt(text, i + 4, {"-"})
    /\ DigitsAt(text, i + 5, b)
    /\ CharAt(text, i + 5 + b, {"-"})
    /\ DigitsAt(text, i + 6 + b, c)

\* one of the twelve alternatives (Jan|Feb|...) matches at i, ignoring case
MonthNameAt(text, i) ==
    /\ i + 2 <= Len(text)
    /\ \E m \in 1..Len(Months) : Lower(SubSeq(text, i, i + 2)) = Months[m][1]

\* the number of characters [a-z]* takes from j on
RECURSIVE LetterRun(_, _)
LetterRun(text, j) == IF CharAt(text, j, Letters) THEN 1 + LetterRun(text, j + 1) ELSE 0

\* (Jan|...)[a-z]* (\d{1,2}),? (\d{4}) matches at i with a day of d digits
\* and c commas (1 or 0); [a-z]* cannot give a letter back to match the space
MonthNameFirstAt(text, i, d, c) ==
    LET j == i + 3 + LetterRun(text, i + 3)
    IN  /\ MonthNameAt(text, i)
        /\ CharAt(text, j, {" "})
        /\ DigitsAt(text, j + 1, d)
        /\ c = 1 => CharAt(text, j + 1 + d, {","})
        /\ CharAt(text, j + 1 + d + c, {" "})
        /\ DigitsAt(text, j + 2 + d + c, 4)

\* the third pattern read as a pattern of two splits: the day's digits, and
\* ,? which takes the comma first (2) and goes without it (1) after that
MonthNameFirstSplit(text, i, d, c) == MonthNameFirstAt(text, i, d, IF c = 2 THEN 1 ELSE 0)

\* the splits with which each pattern matches at i, in the order they are tried
DayFirstSplits(text, i) ==
    SelectSeq(OneOrTwo, LAMBDA ab : DayFirstAt(text, i, ab[1], ab[2]))

YearFirstSplits(text, i) ==
    SelectSeq(OneOrTwo, LAMBDA bc : YearFirstAt(text, i, bc[1], bc[2]))

MonthNameFirstSplits(text, i) ==
    SelectSeq(OneOrTwo, LAMBDA dc : MonthNameFirstSplit(text, i, dc[1], dc[2]))

\* re.search: the leftmost of the places where the pattern matches, 0 when
\* it matches nowhere
SearchStart(starts) ==
    IF starts = {} THEN 0 ELSE CHOOSE i \in starts : \A k \in starts : i <= k

DayFirstStart(text) ==
    SearchStart({i \in 1..Len(text) : DayFirstSplits(text, i) # <<>>})

YearFirstStart(text) ==
    SearchStart({i \in 1..Len(text) : YearFirstSplits(text, i) # <<>>})

MonthNameFirstStart(text) ==
    SearchStart({i \in 1..Len(text) : MonthNameFirstSplits(text, i) # <<>>})

\* the first formatter: group 3, group 2 and group 1 of the match at i
FormatDayFirst(text, i) ==
    LET ab == Head(DayFirstSplits(text, i))
        a == ab[1]
        b == ab[2]
    IN  SubSeq(text, i + a + b + 2, i + a + b + 5) \o <<"-">>
            \o ZFill2(SubSeq(text, i + a + 1, i + a + b)) \o <<"-">>
            \o ZFill2(SubSeq(text, i, i + a - 1))

\* the second formatter: groups 1, 2 and 3 of the match at i
FormatYearFirst(text, i) ==
    LET bc == Head(YearFirstSplits(text, i))
        b == bc[1]
        c == bc[2]
    IN  SubSeq(text, i, i + 3) \o <<"-">>
            \o ZFill2(SubSeq(text, i + 5, i + 4 + b)) \o <<"-">>
            \o ZFill2(SubSeq(text, i + 6 + b, i + 5 + b + c))

\* the third formatter: parse_month_date of groups 1, 2 and 3 of the match at i
FormatMonthNameFirst(text, i) ==
    LET dc == Head(MonthNameFirstSplits(text, i))
        d == dc[1]
        c == IF dc[2] = 2 THEN 1 ELSE 0
        j == i + 3 + LetterRun(text, i + 3)
    IN  parse_month_date(SubSeq(text, i, i + 2),
                         SubSeq(text, j + 1, j + d),
                         SubSeq(text, j + 2 + d + c, j + 5 + d + c))

\* extract_date(raw_text) when datetime.now() is on the date `now`: None for
\* an empty text, else the first pattern that matches, else the current date
extract_date(raw_text, now) ==
    IF raw_text = <<>> THEN None
    ELSE IF DayFirstStart(raw_text) # 0
         THEN Str(FormatDayFirst(raw_text, DayFirstStart(raw_text)))
    ELSE IF YearFirstStart(raw_text) # 0
         THEN Str(FormatYearFirst(raw_text, YearFirstStart(raw_text)))
    ELSE IF MonthNameFirstStart(raw_text) # 0
         THEN Str(FormatMonthNameFirst(raw_text, MonthNameFirstStart(raw_text)))
    ELSE Str(now)

(***************************************************************************)
(* base_scraper.py: identity, normalization, validation, deduplication     *)
(***************************************************************************)

HexDigits ==
    {"0", "1", "2", "3", "4", "5", "6", "7", "8", "9", "a", "b", "c", "d", "e", "f"}

\* the hex digit that stands for a character of a key string in a digest
HexOf(c) ==
    CASE c = "_" -> "1"
      [] c = "n" -> "2"
      [] c = "o" -> "3"
      [] c = "t" -> "4"
      [] c = "r" -> "5"
      [] c = "u" -> "6"
      [] c = "l" -> "7"
      [] c = "s" -> "8"
      [] c = " " -> "9"
      [] c \in {"a", "b", "e", "f"} -> c
      [] OTHER -> "d"

\* hashlib.sha256(...).hexdigest()[:16], idealised: a string of 16 hex
\* digits, different for different key strings of up to 16 of the characters
\* HexOf tells apart (collisions of the real digest are left out)
Sha256Hex16(s) == [i \in 1..16 |-> IF i <= Len(s) THEN HexOf(s[i]) ELSE "0"]

generate_id_case_sensitive(title, source, url) ==
    Str(Sha256Hex16(PyStr(source) \o <<"_">> \o PyStr(title) \o <<"_">> \o PyStr(url)))

generate_id_without_source(title, source, url) ==
    Str(Sha256Hex16(Lower(PyStr(title) \o <<"_">> \o PyStr(url))))

generate_id(title, source, url) ==
    Str(Sha256Hex16(Lower(PyStr(source) \o <<"_">> \o PyStr(title) \o <<"_">> \o PyStr(url))))

\* the ten recognized keys of normalize_opportunity's required_fields
RequiredKeys ==
    {"id", "source", "title", "type", "organization", "location",
     "description", "url", "date_posted", "verified"}

required_fields_all_empty(now) == [k \in RequiredKeys |-> Str(<<>>)]

\* required_fields: the defaults, date_posted being datetime.now() as a date
required_fields(now) ==
    [k \in RequiredKeys |->
        CASE k = "type" -> Str(<<"J", "o", "b">>)
          [] k = "location" -> Str(<<"N", "a", "m", "i", "b", "i", "a">>)
          [] k = "date_posted" -> Str(now)
          [] k = "verified" -> Bool(TRUE)
          [] OTHER -> Str(<<>>)]

\* clean_text(str(value)) if isinstance(value, str) else value
CleanValue(value) == IF value.t = "str" THEN Str(clean_text(value.s)) ELSE value

\* the loop `for key, value in opp.items(): if key in normalized: ...`
OverlayKeys_all(opp) == DOMAIN opp

OverlayKeys(opp) == DOMAIN opp \cap RequiredKeys

Overlay(opp, now) ==
    [k \in RequiredKeys \cup OverlayKeys(opp) |->
        IF k \in OverlayKeys(opp) THEN CleanValue(opp[k]) ELSE required_fields(now)[k]]

normalize_opportunity(opp, now) ==
    LET n == Overlay(opp, now)
    IN  IF ~Truthy(n["id"])
        THEN [n EXCEPT !["id"] = generate_id(n["title"], n["source"], n["url"])]
        ELSE n

validate_opportunity_truthy_only(opp) ==
    \A field \in {"title", "source"} : Truthy(Get(opp, field))

validate_opportunity(opp) ==
    \A field \in {"title", "source"} :
        ~(~Truthy(Get(opp, field)) \/ Strip(PyStr(Get(opp, field))) = <<>>)

DedupStep_any_id(acc, opp) ==
    LET opp_id == Get(opp, "id")
    IN  IF opp_id \notin acc.seen_ids
        THEN [seen_ids |-> acc.seen_ids \cup {opp_id},
              unique_opps |-> Append(acc.unique_opps, opp)]
        ELSE acc

\* one iteration of remove_duplicates' loop; acc = [seen_ids, unique_opps]
DedupStep(acc, opp) ==
    LET opp_id == Get(opp, "id")
    IN  IF Truthy(opp_id) /\ opp_id \notin acc.seen_ids
        THEN [seen_ids |-> acc.seen_ids \cup {opp_id},
              unique_opps |-> Append(acc.unique_opps, opp)]
        ELSE acc

RECURSIVE DedupLoop(_, _)
DedupLoop(acc, opportunities) ==
    IF opportunities = <<>> THEN acc
    ELSE DedupLoop(DedupStep(acc, Head(opportunities)), Tail(opportunities))

remove_duplicates_keep_all(opportunities) ==
    SelectSeq(opportunities, LAMBDA opp : Truthy(Get(opp, "id")))

remove_duplicates(opportunities) ==
    DedupLoop([seen_ids |-> {}, unique_opps |-> <<>>], opportunities).unique_opps

(***************************************************************************)
(* run_all.py: aggregate_opportunities and get_sources                     *)
(***************************************************************************)

\* the sort key: lambda x: x.get('date_posted', '')
SortKey(x) == GetOr(x, "date_posted", Str(<<>>))

\* a < b between two keys Python can order (str with str, bool with bool)
KeyLess(a, b) ==
    IF a.t = "str" THEN StrLess(a.s, b.s) ELSE (~a.b /\ b.b)

\* list.sort raises TypeError as soon as it compares two keys Python cannot
\* order: any comparison with None, or a str with a bool
SortRaises(opps) ==
    /\ Len(opps) >= 2
    /\ ~ \/ \A i \in 1..Len(opps) : SortKey(opps[i]).t = "str"
         \/ \A i \in 1..Len(opps) : SortKey(opps[i]).t = "bool"

Reverse(l) == [i \in 1..Len(l) |-> l[Len(l) + 1 - i]]

\* insertion of x after every element that is not greater than x
RECURSIVE InsertAscending(_, _)
InsertAscending(sorted, x) ==
    IF sorted = <<>> THEN <<x>>
    ELSE IF KeyLess(SortKey(x), SortKey(Head(sorted)))
         THEN <<x>> \o sorted
         ELSE <<Head(sorted)>> \o InsertAscending(Tail(sorted), x)

RECURSIVE SortAscending(_)
SortAscending(l) ==
    IF l = <<>> THEN <<>>
    ELSE InsertAscending(SortAscending(SubSeq(l, 1, Len(l) - 1)), l[Len(l)])

SortNewestFirst_reverse_after(l) == Reverse(SortAscending(l))

\* unique.sort(key=..., reverse=True): CPython reverses the list, sorts it
\* ascending (stable) and reverses it again
SortNewestFirst(l) == Reverse(SortAscending(Reverse(l)))

\* the record appended for one raw record: its normalization when valid
KeepValid(norm_opp) == IF validate_opportunity(norm_opp) THEN <<norm_opp>> ELSE <<>>

\* the normalization loop; nows[i] is the date datetime.now() gives for record i
RECURSIVE NormalizeAll(_, _)
NormalizeAll(all, nows) ==
    IF all = <<>> THEN <<>>
    ELSE KeepValid(normalize_opportunity(Head(all), Head(nows)))
            \o NormalizeAll(Tail(all), Tail(nows))

\* TRUE when aggregate_opportunities raises (the sort is outside any try)
AggregateRaises(all, nows) == SortRaises(remove_duplicates(NormalizeAll(all, nows)))

\* the list aggregate_opportunities returns when it does not raise
aggregate_opportunities(all, nows) ==
    SortNewestFirst(remove_duplicates(NormalizeAll(all, nows)))

\* the set `sources` built by get_sources' loop: the truthy `source` values
SourceSet(opportunities) ==
    {Get(opportunities[i], "source") :
        i \in {j \in 1..Len(opportunities) : Truthy(Get(opportunities[j], "source"))}}

\* sorted() raises TypeError when the set holds a str and a bool
GetSourcesRaises(opportunities) ==
    \E v, w \in SourceSet(opportunities) : v.t # w.t

RECURSIVE SortedValues(_)
SortedValues(S) ==
    IF S = {} THEN <<>>
    ELSE LET m == CHOOSE x \in S : \A y \in S : ~KeyLess(y, x)
         IN  <<m>> \o SortedValues(S \ {m})

get_sources_with_repeats(opportunities) ==
    [i \in 1..Len(opportunities) |-> Get(opportunities[i], "source")]

\* sorted(list(sources)) when it does not raise
get_sources(opportunities) == SortedValues(SourceSet(opportunities))

(***************************************************************************)
(* Bounds and the inputs drawn from them                                   *)
(***************************************************************************)

\* most raw records the collectors of one run return, all together
MaxRecords == 3

\* pieces in which json.dump writes a document to the file
DumpChunks == 2

\* most records a collector has gathered when a KeyboardInterrupt stops it
MaxPartial == 1

\* the modules discover_scrapers can find, in sorted order
ModuleOrder == <<"jobsinnamibia_scraper", "nieis_scraper">>

D_2024_12_31 == <<"2", "0", "2", "4", "-", "1", "2", "-", "3", "1">>

D_2025_01_01 == <<"2", "0", "2", "5", "-", "0", "1", "-", "0", "1">>

D_2025_06_15 == <<"2", "0", "2", "5", "-", "0", "6", "-", "1", "5">>

D_2025_06_16 == <<"2", "0", "2", "5", "-", "0", "6", "-", "1", "6">>

\* the processing dates: a run starts on the first and may pass midnight once
StartDay == D_2025_06_15

NextDay(d) == D_2025_06_16

\* the raw records the collectors of a run return
PipelineRecords ==
    { \* a supplied id
      [id |-> Str(<<"x">>), source |-> Str(<<"a">>), title |-> Str(<<"a">>),
       date_posted |-> Str(D_2025_01_01)],
      \* the same supplied id on another listing, a null date, an unrecognized key
      [id |-> Str(<<"x">>), source |-> Str(<<"b">>), title |-> Str(<<"b">>),
       date_posted |-> None, salary |-> Str(<<"1">>)],
      \* the same supplied id on a record with a blank title
      [id |-> Str(<<"x">>), source |-> Str(<<"a">>), title |-> Str(<<" ">>),
       date_posted |-> Str(D_2025_01_01)],
      \* no id: one is generated
      [source |-> Str(<<"a">>), title |-> Str(<<"a">>),
       date_posted |-> Str(D_2025_01_01)],
      \* the same listing in another letter case, no date
      [source |-> Str(<<"A">>), title |-> Str(<<"A", " ">>), verified |-> Bool(FALSE)],
      \* another supplied id, the oldest date
      [id |-> Str(<<"y">>), source |-> Str(<<"b">>), title |-> Str(<<"a">>),
       date_posted |-> Str(D_2024_12_31)] }

RECURSIVE SeqsUpTo(_, _)
SeqsUpTo(S, n) ==
    IF n = 0 THEN {<<>>}
    ELSE LET shorter == SeqsUpTo(S, n - 1)
         IN  shorter \cup {Append(q, x) : q \in {r \in shorter : Len(r) = n - 1}, x \in S}

\* the ways run_scraper's call of a module can end without returning a list
FailureKinds == {"raise", "import_error", "no_scrape", "not_list"}

AbortKinds == {"system_exit", "interrupt"}

\* the ways a call of scrape() hands a list back: it ran to its end, or it
\* caught a KeyboardInterrupt itself and returns what it had collected
ReturnKinds == {"list", "interrupted"}

\* the modules whose scrape() has an `except KeyboardInterrupt` of its own
CatchesInterrupt == {"jobsinnamibia_scraper"}

NoFile == [exists |-> FALSE, doc |-> <<>>, written |-> 0]

\* a file holding the first `written` pieces of doc's serialization
File(doc, written) == [exists |-> TRUE, doc |-> <<doc>>, written |-> written]

Complete(file) == file.exists /\ file.written = DumpChunks

\* the record of an earlier run's snapshot; this run's collectors do not
\* return it again
OldRecord ==
    normalize_opportunity(
        [id |-> Str(<<"o">>), source |-> Str(<<"o">>), title |-> Str(<<"o">>),
         date_posted |-> Str(D_2025_01_01)],
        D_2025_01_01)

\* the snapshot an earlier run left
OldSnapshot ==
    [last_updated |-> D_2025_01_01, total_count |-> 1, sources |-> <<Str(<<"o">>)>>,
     scraper_stats |-> [n \in {"example_scraper"} |-> 1],
     opportunities |-> <<OldRecord>>]

NoData ==
    [last_updated |-> <<>>, total_count |-> 0, sources |-> <<>>,
     scraper_stats |-> [n \in {} |-> 0], opportunities |-> <<>>]

NoCall == [op |-> "none", out |-> <<>>]

(***************************************************************************)
(* run_all.py: main, and base_scraper.py: write_json                       *)
(***************************************************************************)

\* the state a run of `python run_all.py` starts in
Init ==
    /\ pc = "main"
    /\ scrapers = <<>>
    /\ outcomes = <<>>
    /\ all_opportunities = <<>>
    /\ scraper_stats = [n \in {} |-> 0]
    /\ final_opportunities = <<>>
    /\ output_data = NoData
    /\ \E old \in BOOLEAN :
          /\ fs = [dir |-> old,
                   target |-> IF old THEN File(OldSnapshot, DumpChunks) ELSE NoFile,
                   temp |-> NoFile]
    /\ previous = fs.target
    /\ temp_path = FALSE
    /\ success = FALSE
    /\ exit_code = -1
    /\ today = StartDay
    /\ arg = <<>>
    /\ res = NoCall

\* sys.exit(code), or an exception reaching the interpreter
Exit(code) ==
    /\ pc' = "exited"
    /\ exit_code' = code

\* discover_scrapers: the sorted names of the modules in the directory
discover_scrapers(found) ==
    LET RECURSIVE Pick(_)
        Pick(i) ==
            IF i > Len(ModuleOrder) THEN <<>>
            ELSE (IF i \in found THEN <<ModuleOrder[i]>> ELSE <<>>) \o Pick(i + 1)
    IN  Pick(1)

NoneFound_never(found_scrapers) == FALSE

\* `if not scrapers:`
NoneFound(found_scrapers) == found_scrapers = <<>>

\* main, lines 161-169
Discover ==
    /\ pc = "main"
    /\ \E found \in SUBSET (1..Len(ModuleOrder)) :
          /\ scrapers' = discover_scrapers(found)
          /\ IF NoneFound(scrapers')
             THEN Exit(1)
             ELSE pc' = "collect" /\ UNCHANGED exit_code
    /\ UNCHANGED <<outcomes, all_opportunities, scraper_stats, final_opportunities,
                   output_data, fs, previous, temp_path, success, today, arg, res>>

\* the list run_scraper returns for a call that ended as `kind`
run_scraper(kind, items) == IF kind \in ReturnKinds THEN items ELSE <<>>

\* all_opportunities.extend(opportunities)
Extend_prepend(all, opportunities) == opportunities \o all

Extend(all, opportunities) == all \o opportunities

StatsCount_valid_only(opportunities) ==
    Len(SelectSeq(opportunities, LAMBDA opp : validate_opportunity(opp)))

\* 'count': len(opportunities)
StatsCount(opportunities) == Len(opportunities)

\* one iteration of main's loop over the scrapers, lines 175-181: run_scraper
\* catches Exception only, so SystemExit and KeyboardInterrupt leave main
RunScraper ==
    /\ pc = "collect"
    /\ Len(outcomes) < Len(scrapers)
    /\ \E kind \in ReturnKinds \cup FailureKinds \cup AbortKinds,
          items \in SeqsUpTo(PipelineRecords, MaxRecords - Len(all_opportunities)) :
          LET name == scrapers[Len(outcomes) + 1]
              opportunities == run_scraper(kind, items)
          IN  /\ kind \notin ReturnKinds => items = <<>>
              /\ kind = "interrupted" => (name \in CatchesInterrupt /\ Len(items) <= MaxPartial)
              /\ outcomes' = Append(outcomes, [name |-> name, kind |-> kind, items |-> items])
              /\ IF kind \in AbortKinds
                 THEN /\ Exit(IF kind = "interrupt" THEN 130 ELSE 1)
                      /\ UNCHANGED <<all_opportunities, scraper_stats>>
                 ELSE /\ all_opportunities' = Extend(all_opportunities, opportunities)
                      /\ scraper_stats' =
                            [n \in DOMAIN scraper_stats \cup {name} |->
                                IF n = name THEN StatsCount(opportunities)
                                ELSE scraper_stats[n]]
                      /\ pc' = IF Len(outcomes') = Len(scrapers) THEN "aggregate" ELSE "collect"
                      /\ UNCHANGED exit_code
    /\ UNCHANGED <<scrapers, final_opportunities, output_data, fs, previous,
                   temp_path, success, today, arg, res>>

\* the dates datetime.now() gives while n records are normalized: midnight
\* may pass after the first k of them
Clock(n, k, day) == [i \in 1..n |-> IF i <= k THEN day ELSE NextDay(day)]

\* the k worth telling apart: midnight never passes (k = Len), or it passes
\* right before a record that takes the default date (a record that carries
\* its own date_posted does not read the clock's value)
MidnightChoices(all) ==
    {Len(all)} \cup {k \in 0..(Len(all) - 1) : "date_posted" \notin DOMAIN all[k + 1]}

\* main, lines 184-193: aggregate, then build output_data; an exception of
\* either leaves main and reaches __main__'s `except Exception`
Aggregate ==
    /\ pc = "aggregate"
    /\ \E k \in MidnightChoices(all_opportunities) :
          LET nows == Clock(Len(all_opportunities), k, today)
              final == aggregate_opportunities(all_opportunities, nows)
          IN  /\ today' = IF k < Len(all_opportunities) THEN NextDay(today) ELSE today
              /\ IF AggregateRaises(all_opportunities, nows)
                 THEN /\ Exit(1)
                      /\ UNCHANGED <<final_opportunities, output_data>>
                 ELSE /\ final_opportunities' = final
                      /\ IF GetSourcesRaises(final)
                         THEN Exit(1) /\ UNCHANGED output_data
                         ELSE /\ output_data' =
                                    [last_updated |-> today',
                                     total_count |-> Len(final),
                                     sources |-> get_sources(final),
                                     scraper_stats |-> scraper_stats,
                                     opportunities |-> final]
                              /\ pc' = "makedirs"
                              /\ UNCHANGED exit_code
    /\ UNCHANGED <<scrapers, outcomes, all_opportunities, scraper_stats, fs,
                   previous, temp_path, success, arg, res>>

\* the path main hands to write_json, as the sequence of its components
\* below the repository's src directory
output_path == <<"data", "opportunities.json">>

\* os.path.dirname(filepath): everything before the last component, the
\* empty path for a bare file name
Dirname(filepath) == SubSeq(filepath, 1, Len(filepath) - 1)

\* os.makedirs(dirname, exist_ok=True) raises FileNotFoundError for the
\* empty path, whatever the file system holds
MakedirsRaises(dirname) == dirname = <<>>

\* write_json's except branch, lines 261-266: remove the temp file when
\* temp_path is bound and the file exists, return False.  os.remove is not
\* guarded: when it fails too, its exception leaves write_json and main and
\* reaches __main__'s `except Exception`
WriteFailed ==
    \E removed \in BOOLEAN :
        IF removed \/ ~(temp_path /\ fs.temp.exists)
        THEN /\ fs' = [fs EXCEPT !.temp = IF temp_path THEN NoFile ELSE @]
             /\ success' = FALSE
             /\ res' = [op |-> "write_json", out |-> <<FALSE>>]
             /\ pc' = "summary"
             /\ UNCHANGED exit_code
        ELSE /\ res' = [op |-> "write_json_raised", out |-> <<>>]
             /\ Exit(1)
             /\ UNCHANGED <<fs, success>>

\* write_json, line 240: os.makedirs(dirname, exist_ok=True)
WriteMakedirs ==
    /\ pc = "makedirs"
    /\ \E ok \in BOOLEAN :
          IF ok /\ ~MakedirsRaises(Dirname(output_path))
          THEN /\ fs' = [fs EXCEPT !.dir = TRUE]
               /\ pc' = "mkstemp"
               /\ UNCHANGED <<success, exit_code, res>>
          ELSE WriteFailed
    /\ UNCHANGED <<scrapers, outcomes, all_opportunities, scraper_stats,
                   final_opportunities, output_data, previous, temp_path,
                   today, arg>>

\* write_json, lines 243-246: tempfile.mkstemp creates an empty file in the
\* target's directory
WriteMkstemp ==
    /\ pc = "mkstemp"
    /\ \E ok \in BOOLEAN :
          IF ok
          THEN /\ fs' = [fs EXCEPT !.temp = [exists |-> TRUE, doc |-> <<>>, written |-> 0]]
               /\ temp_path' = TRUE
               /\ pc' = "dump"
               /\ UNCHANGED <<success, exit_code, res>>
          ELSE WriteFailed /\ UNCHANGED temp_path
    /\ UNCHANGED <<scrapers, outcomes, all_opportunities, scraper_stats,
                   final_opportunities, output_data, previous, today, arg>>

\* the file json.dump writes to: the descriptor mkstemp returned
DumpPath_in_place(filepath, temp) == filepath

DumpPath(filepath, temp) == temp

\* write_json, lines 248-252: json.dump writes the document piece by piece
WriteDump ==
    /\ pc = "dump"
    /\ \E ok \in BOOLEAN :
          IF ok
          THEN LET path == DumpPath("target", "temp")
                   done == IF fs[path].doc = <<output_data>> THEN fs[path].written ELSE 0
               IN  /\ fs' = [fs EXCEPT ![path] = File(output_data, done + 1)]
                   /\ pc' = IF done + 1 = DumpChunks THEN "replace" ELSE "dump"
                   /\ UNCHANGED <<success, exit_code, res>>
          ELSE WriteFailed
    /\ UNCHANGED <<scrapers, outcomes, all_opportunities, scraper_stats,
                   final_opportunities, output_data, previous, temp_path,
                   today, arg>>

Replaced_kept_old(old, new) == IF old.exists THEN old ELSE new

\* the file at the destination after os.replace(src, dst): the source file,
\* whatever the destination held
Replaced(old, new) == new

\* write_json(data, filepath) as one call on the file system `files`, in a
\* location where no step fails for a reason of the file system's: what it
\* returns (out) and the files it leaves.  When makedirs raises, temp_path
\* is not bound yet and the except branch has nothing to remove
write_json(data, filepath, files) ==
    IF MakedirsRaises(Dirname(filepath))
    THEN [out |-> FALSE, files |-> files]
    ELSE LET made == [files EXCEPT !.dir = TRUE]
             temp == File(data, DumpChunks)
         IN  [out |-> TRUE,
              files |-> [made EXCEPT !.target = Replaced(made.target, temp),
                                     !.temp = NoFile]]

\* write_json, lines 255-259: os.replace(temp_path, filepath), return True
WriteReplace ==
    /\ pc = "replace"
    /\ \E ok \in BOOLEAN :
          IF ok
          THEN /\ fs' = [fs EXCEPT !.target = Replaced(fs.target, fs.temp), !.temp = NoFile]
               /\ success' = TRUE
               /\ res' = [op |-> "write_json", out |-> <<TRUE>>]
               /\ pc' = "summary"
               /\ UNCHANGED exit_code
          ELSE WriteFailed
    /\ UNCHANGED <<scrapers, outcomes, all_opportunities, scraper_stats,
                   final_opportunities, output_data, previous, temp_path,
                   today, arg>>

ExitStatus_always_zero(ok) == 0

\* the status main ends with: 0 if success else 1
ExitStatus(ok) == IF ok THEN 0 ELSE 1

\* main, lines 207-231: the summary, then sys.exit(0 if success else 1)
Finish ==
    /\ pc = "summary"
    /\ Exit(ExitStatus(success))
    /\ UNCHANGED <<scrapers, outcomes, all_opportunities, scraper_stats,
                   final_opportunities, output_data, fs, previous, temp_path,
                   success, today, arg, res>>

WritePhases == {"makedirs", "mkstemp", "dump", "replace"}

\* the process is killed, or the machine stops, while write_json runs:
\* nothing more is executed and the files stay as they are
Crash ==
    /\ pc \in WritePhases
    /\ pc' = "crashed"
    /\ UNCHANGED <<scrapers, outcomes, all_opportunities, scraper_stats,
                   final_opportunities, output_data, fs, previous, temp_path,
                   success, exit_code, today, arg, res>>

\* a KeyboardInterrupt while main aggregates or write_json runs: neither has
\* a handler for it (write_json catches Exception only), so it ends main and
\* __main__ exits with 130; the files stay as they are
Interrupt ==
    /\ pc \in {"aggregate"} \cup WritePhases
    /\ Exit(130)
    /\ UNCHANGED <<scrapers, outcomes, all_opportunities, scraper_stats,
                   final_opportunities, output_data, fs, previous, temp_path,
                   success, today, arg, res>>

Next ==
    \/ Discover
    \/ RunScraper
    \/ Aggregate
    \/ WriteMakedirs
    \/ WriteMkstemp
    \/ WriteDump
    \/ WriteReplace
    \/ Finish
    \/ Crash
    \/ Interrupt

Spec == Init /\ [][Next]_vars

(***************************************************************************)
(* Library harness: one call of a function of base_scraper.py or of        *)
(* aggregate_opportunities on an input drawn from bounded sets, the way    *)
(* test_setup.py and the collectors call them                              *)
(***************************************************************************)

\* most records in a list handed to remove_duplicates directly
MaxDedupLen == 3

\* marks a key the raw record does not have
Absent == [t |-> "absent", s |-> <<>>, b |-> FALSE]

\* the dict with the keys of `fields` whose value is not Absent
Dict(fields) ==
    [k \in {x \in DOMAIN fields : fields[x] # Absent} |-> fields[k]]

\* raw records for the claims about two records: ids, sources and titles that
\* differ in letter case or are blank, with and without other fields
PairRecords ==
    {Dict([id |-> i, source |-> s, title |-> t, url |-> u,
           description |-> o, date_posted |-> (IF o = Absent THEN Absent ELSE Str(D_2025_01_01))]) :
        i \in {Absent, Str(<<" ">>), Str(<<"x">>)},
        s \in {Str(<<"a">>), Str(<<"A">>), Str(<<"b">>), Str(<<" ">>)},
        t \in {Str(<<"a">>), Str(<<"A">>), Str(<<" ">>)},
        u \in {Absent, Str(<<"u">>)},
        o \in {Absent, Str(<<"b">>)}}

\* the values a collector may put in title and source
FieldChoices ==
    {Absent, None, Bool(FALSE), Bool(TRUE), Str(<<>>), Str(<<" ">>),
     Str(<<LF, NBSP>>), Str(<<"a">>), Str(<<" ", "a">>)}

\* raw records for the claims about one record
WideRecords ==
    {Dict([source |-> s, title |-> t, id |-> o, type |-> o]) :
        s \in FieldChoices, t \in FieldChoices, o \in {Absent, None}}

\* records as remove_duplicates may be handed them: any id, or none
DedupRecords ==
    {Dict([id |-> i, title |-> t]) :
        i \in {Absent, None, Bool(FALSE), Bool(TRUE), Str(<<>>), Str(<<"x">>), Str(<<"y">>)},
        t \in {Str(<<"a">>), Str(<<"b">>)}}

\* raw records whose values are strings, booleans or null, for the pipeline
MixedRecords ==
    {[title |-> Str(<<"a">>), source |-> Str(<<"a">>), date_posted |-> Str(D_2025_01_01)],
     [title |-> Str(<<"b">>), source |-> Str(<<"b">>), date_posted |-> None],
     [title |-> Str(<<"b">>), source |-> Str(<<"A">>)],
     [title |-> Str(<<"a">>), source |-> Bool(TRUE)],
     [title |-> None, source |-> Str(<<"a">>), verified |-> Str(<<"a">>)],
     [title |-> Str(<<"a">>), source |-> Str(<<"b">>), type |-> Str(<<"a">>)]}

\* raw records without an id whose source or title may hold the '_' that
\* generate_id puts between the fields
SeparatorRecords ==
    {Dict([source |-> Str(s), title |-> Str(t), url |-> u]) :
        s \in {<<"a">>, <<"a", "_", "b">>},
        t \in {<<"b">>, <<"b", "_", "b">>, <<"a">>},
        u \in {Absent, Str(<<"u">>)}}

LibInputs ==
    {<<r1, r2>> : r1 \in PairRecords, r2 \in PairRecords}
        \cup {<<r>> : r \in WideRecords}
        \cup SeqsUpTo(DedupRecords, MaxDedupLen)
        \cup {<<r1, r2>> : r1 \in MixedRecords, r2 \in MixedRecords}
        \cup {<<r1, r2>> : r1 \in SeparatorRecords, r2 \in SeparatorRecords}

\* most characters in a text of markup and whitespace handed to clean_text
MaxTextLen == 4

\* texts of markup and whitespace: every string of up to MaxTextLen of these
\* characters, the text of test_setup.py's check of clean_text (with one
\* letter per word) and two texts with nested angle brackets
MarkupTexts ==
    SeqsUpTo({" ", LF, CR, NBSP, "<", ">", "a"}, MaxTextLen)
        \cup {<<" ", " ", "a", " ", " ", " ", "b", LF, LF, " ", " ">>,
              <<"<", "<", "a", ">", "b", ">", " ", "<", ">">>,
              <<"a", "<", "b", " ", "<", "a", ">", ">", NBSP, CR, "b">>}

DateNumbers == {<<"1">>, <<"3", "1">>, <<"2", "0", "2", "5">>}

DateSeparators == {<<"/">>, <<"-">>, <<" ">>, <<",", " ">>}

\* what comes before the numbers: nothing, another character, a month name,
\* a longer month name in capitals, a word that is no month name
DatePrefixes ==
    {<<>>, <<"x">>, <<"J", "a", "n", " ">>, <<"S", "E", "P", "T", " ">>,
     <<"S", "o", "l", " ">>}

\* texts with up to three numbers in them, as the collectors find them in a
\* page's date elements
DateTexts ==
    {pre \o a \o s1 \o b \o s2 \o c :
        pre \in DatePrefixes, a \in DateNumbers, s1 \in DateSeparators,
        b \in DateNumbers, s2 \in DateSeparators, c \in DateNumbers \cup {<<>>}}

\* the inputs of the functions that take a text
TextInputs == {<<Str(text)>> : text \in MarkupTexts \cup DateTexts}

\* the document test_setup.py writes
TestData == [test |-> TRUE, timestamp |-> D_2025_01_01]

\* target paths: a file in the data directory, and a bare file name
FilePaths == {<<"data", "test.json">>, <<"test.json">>}

\* the inputs of write_json
WriteInputs == {<<[data |-> TestData, filepath |-> p]>> : p \in FilePaths}

\* the writable locations write_json is called in: the directory missing,
\* the directory there without the file, and with an earlier file
WriteFileSystems ==
    {[dir |-> FALSE, target |-> NoFile, temp |-> NoFile],
     [dir |-> TRUE, target |-> NoFile, temp |-> NoFile],
     [dir |-> TRUE, target |-> File(OldSnapshot, DumpChunks), temp |-> NoFile]}

InitLib ==
    /\ pc = "lib"
    /\ arg \in LibInputs \cup TextInputs \cup WriteInputs
    /\ res = NoCall
    /\ today = StartDay
    /\ scrapers = <<>>
    /\ outcomes = <<>>
    /\ all_opportunities = <<>>
    /\ scraper_stats = [n \in {} |-> 0]
    /\ final_opportunities = <<>>
    /\ output_data = NoData
    /\ fs \in IF arg \in WriteInputs THEN WriteFileSystems
              ELSE {[dir |-> FALSE, target |-> NoFile, temp |-> NoFile]}
    /\ previous = fs.target
    /\ temp_path = FALSE
    /\ success = FALSE
    /\ exit_code = -1

Returned(op, out) ==
    /\ res' = [op |-> op, out |-> out]
    /\ pc' = "returned"
    /\ UNCHANGED <<scrapers, outcomes, all_opportunities, scraper_stats,
                   final_opportunities, output_data, fs, previous, temp_path,
                   success, exit_code, arg>>

\* normalize_opportunity on each record of arg, in order
CallNormalize ==
    /\ pc = "lib"
    /\ arg \in LibInputs
    /\ \E k \in MidnightChoices(arg) :
          LET nows == Clock(Len(arg), k, today)
          IN  /\ today' = IF k < Len(arg) THEN NextDay(today) ELSE today
              /\ Returned("normalize",
                          [i \in 1..Len(arg) |-> normalize_opportunity(arg[i], nows[i])])

\* validate_opportunity on each record of arg
CallValidate ==
    /\ pc = "lib"
    /\ arg \in LibInputs
    /\ Returned("validate", [i \in 1..Len(arg) |-> validate_opportunity(arg[i])])
    /\ UNCHANGED today

\* remove_duplicates(arg)
CallRemoveDuplicates ==
    /\ pc = "lib"
    /\ arg \in LibInputs
    /\ Returned("remove_duplicates", remove_duplicates(arg))
    /\ UNCHANGED today

\* aggregate_opportunities(arg)
CallAggregate ==
    /\ pc = "lib"
    /\ arg \in LibInputs
    /\ \E k \in MidnightChoices(arg) :
          LET nows == Clock(Len(arg), k, today)
          IN  /\ today' = IF k < Len(arg) THEN NextDay(today) ELSE today
              /\ IF AggregateRaises(arg, nows)
                 THEN Returned("aggregate_raised", <<>>)
                 ELSE Returned("aggregate", aggregate_opportunities(arg, nows))

\* get_sources(arg)
CallGetSources ==
    /\ pc = "lib"
    /\ arg \in LibInputs
    /\ IF GetSourcesRaises(arg)
       THEN Returned("get_sources_raised", <<>>)
       ELSE Returned("get_sources", get_sources(arg))
    /\ UNCHANGED today

\* extract_date(arg[0])
CallExtractDate ==
    /\ pc = "lib"
    /\ arg \in TextInputs
    /\ Returned("extract_date", <<extract_date(arg[1].s, today)>>)
    /\ UNCHANGED today

\* clean_text(arg[0])
CallCleanText ==
    /\ pc = "lib"
    /\ arg \in TextInputs
    /\ Returned("clean_text", <<Str(clean_text(arg[1].s))>>)
    /\ UNCHANGED today

\* write_json(data, filepath) for the data and the path of arg
CallWriteJson ==
    /\ pc = "lib"
    /\ arg \in WriteInputs
    /\ LET r == write_json(arg[1].data, arg[1].filepath, fs)
       IN  /\ fs' = r.files
           /\ res' = [op |-> "write_json", out |-> <<r.out>>]
    /\ pc' = "returned"
    /\ UNCHANGED <<scrapers, outcomes, all_opportunities, scraper_stats,
                   final_opportunities, output_data, previous, temp_path,
                   success, exit_code, today, arg>>

NextLib ==
    \/ CallWriteJson
    \/ CallNormalize
    \/ CallValidate
    \/ CallRemoveDuplicates
    \/ CallAggregate
    \/ CallGetSources
    \/ CallExtractDate
    \/ CallCleanText

SpecLib == InitLib /\ [][NextLib]_vars

(***************************************************************************)
(* Properties                                                              *)
(***************************************************************************)

\* the collectors' outputs concatenated in run order
RECURSIVE RunOrderItems(_)
RunOrderItems(outs) ==
    IF outs = <<>> THEN <<>>
    ELSE RunOrderItems(SubSeq(outs, 1, Len(outs) - 1)) \o outs[Len(outs)].items

\* the id normalization gives a raw record (it does not depend on the date)
IdOf(raw) == normalize_opportunity(raw, StartDay)["id"]

IsValid(raw) == validate_opportunity(normalize_opportunity(raw, StartDay))

IdsIn(opps) == {opps[i]["id"] : i \in 1..Len(opps)}

\* C1: collector failure isolation.  When a collector fails (raises, ends in
\* SystemExit, fails at import or returns a non-list) and the run is not
\* interrupted by the user, main has still invoked every collector by the time
\* the process exits, the failing collector counts zero items, and once the
\* snapshot is written every valid item of the other collectors has its id in
\* the dataset, and the source of every record of the dataset is in `sources`.
C1_FailureIsolation ==
    (/\ pc = "exited"
     /\ exit_code # 130
     /\ \E i \in 1..Len(outcomes) : outcomes[i].kind \in FailureKinds \cup {"system_exit"})
    => /\ Len(outcomes) = Len(scrapers)
       /\ \A i \in 1..Len(outcomes) :
             (outcomes[i].kind \notin ReturnKinds /\ outcomes[i].name \in DOMAIN scraper_stats)
                => scraper_stats[outcomes[i].name] = 0
       /\ success =>
             LET doc == fs.target.doc[1]
             IN  /\ \A i \in 1..Len(RunOrderItems(outcomes)) :
                       IsValid(RunOrderItems(outcomes)[i]) =>
                          IdOf(RunOrderItems(outcomes)[i]) \in IdsIn(doc.opportunities)
                 /\ \A i \in 1..Len(doc.opportunities) :
                       \E j \in 1..Len(doc.sources) :
                          doc.sources[j] = doc.opportunities[i]["source"]

\* C2: atomic snapshot write.  In every state, the target file holds either
\* what it held when the run started (possibly nothing) or the complete
\* serialization of the snapshot built by this run, never a part of one.
C2_TargetOldOrComplete ==
    \/ fs.target = previous
    \/ /\ output_data # NoData
       /\ fs.target = File(output_data, DumpChunks)

\* C2 witness: the process died after the temp file was written in full and
\* before the rename, and the previous snapshot is still in place
C2_Witness_CrashBeforeRename ==
    /\ pc = "crashed"
    /\ fs.temp = File(output_data, DumpChunks)
    /\ previous = File(OldSnapshot, DumpChunks)
    /\ fs.target = previous

\* C3: the list aggregate_opportunities returns holds no two records with the
\* same id.
C3_UniqueIds ==
    \A i, j \in 1..Len(final_opportunities) :
        i # j => final_opportunities[i]["id"] # final_opportunities[j]["id"]

\* C3 witness: aggregation returned two records from three valid raw records,
\* two of which share an id
C3_Witness_DuplicateCollapsed ==
    /\ Len(final_opportunities) = 2
    /\ Len(all_opportunities) = 3
    /\ \A i \in 1..3 : IsValid(all_opportunities[i])
    /\ \E i, j \in 1..3 : i # j /\ IdOf(all_opportunities[i]) = IdOf(all_opportunities[j])

\* str values equal up to letter case, other values equal
LowerValue(v) == IF v.t = "str" THEN Str(Lower(v.s)) ELSE v

\* the two raw records have the same source, title and url, ignoring letter case
SameTriple(r1, r2) ==
    \A k \in {"source", "title", "url"} :
        /\ k \in DOMAIN r1 <=> k \in DOMAIN r2
        /\ k \in DOMAIN r1 => LowerValue(r1[k]) = LowerValue(r2[k])

\* the raw record carries an id that is still non-empty once cleaned
SuppliesId(r) == "id" \in DOMAIN r /\ Truthy(CleanValue(r["id"]))

\* C4 as claimed: two raw records with the same (source, title, url), ignoring
\* letter case, get the same id from normalize_opportunity, whatever their
\* other fields are, a supplied id included.
C4_SameTripleSameId ==
    (res.op = "normalize" /\ Len(arg) = 2 /\ SameTriple(arg[1], arg[2]))
    => res.out[1]["id"] = res.out[2]["id"]

\* C4 as amended: two raw records with the same (source, title, url), ignoring
\* letter case, neither of which supplies an id that is non-empty after
\* cleaning, get the same id from normalize_opportunity, whatever their other
\* fields are.
C4_SameTripleSameGeneratedId ==
    (/\ res.op = "normalize"
     /\ Len(arg) = 2
     /\ SameTriple(arg[1], arg[2])
     /\ ~SuppliesId(arg[1])
     /\ ~SuppliesId(arg[2]))
    => res.out[1]["id"] = res.out[2]["id"]

\* C4 witness: the two records differ in the letter case of source and title,
\* one leaves the id out and the other gives a blank one, and only one of
\* them has a description
C4_Witness_CaseAndOtherFieldsDiffer ==
    /\ res.op = "normalize"
    /\ Len(arg) = 2
    /\ SameTriple(arg[1], arg[2])
    /\ "id" \notin DOMAIN arg[1]
    /\ "id" \in DOMAIN arg[2]
    /\ ~SuppliesId(arg[2])
    /\ Get(arg[1], "source") # Get(arg[2], "source")
    /\ Get(arg[1], "title") # Get(arg[2], "title")
    /\ "description" \in DOMAIN arg[1]
    /\ "description" \notin DOMAIN arg[2]
    /\ res.out[1]["id"] = res.out[2]["id"]

\* what C5 asks of two raw records: no id, the same non-empty title, the same
\* url, different non-empty sources
DifferOnlyInSource(r1, r2) ==
    /\ "id" \notin DOMAIN r1 \cup DOMAIN r2
    /\ {"title", "source"} \subseteq DOMAIN r1 \cap DOMAIN r2
    /\ r1["title"] = r2["title"]
    /\ r1["title"].t = "str" /\ r1["title"].s # <<>>
    /\ Get(r1, "url") = Get(r2, "url")
    /\ "url" \in DOMAIN r1 <=> "url" \in DOMAIN r2
    /\ r1["source"].t = "str" /\ r1["source"].s # <<>>
    /\ r2["source"].t = "str" /\ r2["source"].s # <<>>
    /\ r1["source"] # r2["source"]

\* the title and the sources are not blank, the sources still differ once
\* cleaned and lower-cased, and a date_posted, where given, is a string
StillDifferentOnceCleaned(r1, r2) ==
    /\ clean_text(r1["title"].s) # <<>>
    /\ clean_text(r1["source"].s) # <<>>
    /\ clean_text(r2["source"].s) # <<>>
    /\ Lower(clean_text(r1["source"].s)) # Lower(clean_text(r2["source"].s))
    /\ \A r \in {r1, r2} : "date_posted" \in DOMAIN r => r["date_posted"].t = "str"

\* two survivors, with different ids
TwoSurvivors ==
    /\ res.op = "normalize" => res.out[1]["id"] # res.out[2]["id"]
    /\ res.op # "aggregate_raised"
    /\ res.op = "aggregate" => Len(res.out) = 2

NonEmptyValue(v) == v # Str(<<>>) /\ v # None

\* C6: every record aggregate_opportunities returns has exactly the ten
\* recognized keys, and its id, source and title are non-empty.
C6_TenKeysAndRequiredNonEmpty ==
    \A i \in 1..Len(final_opportunities) :
        /\ DOMAIN final_opportunities[i] = RequiredKeys
        /\ \A k \in {"id", "source", "title"} : NonEmptyValue(final_opportunities[i][k])

\* C6 witness: a raw record with an unrecognized key and without most of the
\* ten keys came through aggregation
C6_Witness_ExtraKeyDropped ==
    /\ Len(final_opportunities) = 1
    /\ \E i \in 1..Len(all_opportunities) :
          /\ "salary" \in DOMAIN all_opportunities[i]
          /\ "url" \notin DOMAIN all_opportunities[i]
          /\ final_opportunities[1]["title"] = all_opportunities[i]["title"]

\* the place of the first valid raw record with this id
FirstValidIndex(raws, id) ==
    CHOOSE i \in 1..Len(raws) :
        /\ IsValid(raws[i]) /\ IdOf(raws[i]) = id
        /\ \A j \in 1..(i - 1) : ~(IsValid(raws[j]) /\ IdOf(raws[j]) = id)

\* C7: the list aggregate_opportunities returns is ordered by date_posted
\* descending, compared as strings, and records with equal date_posted are in
\* the order deduplication left them in (that of their first valid occurrence
\* in the input).  The list is looked at as main receives it (line 184); no
\* later step of main assigns final_opportunities.
C7_NewestFirstStable ==
    pc = "makedirs" =>
        \A i, j \in 1..Len(final_opportunities) :
            i < j =>
                LET a == final_opportunities[i]
                    b == final_opportunities[j]
                IN  /\ ~StrLess(a["date_posted"].s, b["date_posted"].s)
                    /\ a["date_posted"] = b["date_posted"] =>
                          FirstValidIndex(all_opportunities, a["id"])
                              < FirstValidIndex(all_opportunities, b["id"])

\* C7 witness: three records came in oldest first; the two newer ones have the
\* same date and kept their order, ahead of the oldest
C7_Witness_TieAndReorder ==
    /\ Len(final_opportunities) = 3
    /\ Get(all_opportunities[1], "date_posted") = Str(D_2024_12_31)
    /\ final_opportunities[3]["date_posted"] = Str(D_2024_12_31)
    /\ final_opportunities[1]["date_posted"] = final_opportunities[2]["date_posted"]
    /\ FirstValidIndex(all_opportunities, final_opportunities[1]["id"]) = 2

\* empty (missing, null, false or the empty string) or blank (only whitespace)
EmptyOrBlank(v) ==
    \/ v.t = "none"
    \/ v.t = "bool" /\ ~v.b
    \/ v.t = "str" /\ \A i \in 1..Len(v.s) : v.s[i] \in Whitespace

\* C8: validate_opportunity returns False exactly when title or source is
\* empty (missing, null, false, "") or blank, whatever the other fields are.
C8_RejectsIffEmptyOrBlank ==
    res.op = "validate" =>
        \A i \in 1..Len(arg) :
            res.out[i] = ~(\/ EmptyOrBlank(Get(arg[i], "title"))
                           \/ EmptyOrBlank(Get(arg[i], "source")))

\* C8 witness: a record whose title is whitespace only, with a good source,
\* was rejected
C8_Witness_BlankTitleRejected ==
    /\ res.op = "validate"
    /\ Len(arg) = 1
    /\ Get(arg[1], "source") = Str(<<"a">>)
    /\ Get(arg[1], "title") = Str(<<LF, NBSP>>)
    /\ res.out[1] = FALSE

\* the places of the records that are the first with their non-empty id
FirstOccurrences(l) ==
    {i \in 1..Len(l) :
        /\ Truthy(Get(l[i], "id"))
        /\ \A j \in 1..(i - 1) : Get(l[j], "id") # Get(l[i], "id")}

\* the subsequence of l at the places in I
RECURSIVE SubseqAt(_, _)
SubseqAt(l, I) ==
    IF l = <<>> THEN <<>>
    ELSE SubseqAt(SubSeq(l, 1, Len(l) - 1), I)
            \o (IF Len(l) \in I THEN <<l[Len(l)]>> ELSE <<>>)

\* C9: remove_duplicates returns the subsequence of its input made of the
\* first record of each distinct non-empty id; no record with an empty or
\* falsy id is in it.
C9_FirstOfEachIdInOrder ==
    res.op = "remove_duplicates" => res.out = SubseqAt(arg, FirstOccurrences(arg))

\* C9 witness: a record without a usable id was dropped and, of two different
\* records with the same id, the first was kept
C9_Witness_FalsyDroppedFirstKept ==
    /\ res.op = "remove_duplicates"
    /\ Len(arg) = 3
    /\ ~Truthy(Get(arg[1], "id"))
    /\ Truthy(Get(arg[2], "id"))
    /\ Get(arg[2], "id") = Get(arg[3], "id")
    /\ arg[2] # arg[3]
    /\ res.out = <<arg[2]>>

\* C10: when aggregation has returned to main, every id of a valid raw record
\* is in the dataset, and the record kept for an id is the normalization of
\* the first valid record with that id in the concatenation of the
\* collectors' outputs in run order.  No later step of main assigns outcomes
\* or final_opportunities.
C10_FirstValidInRunOrderWins ==
    pc = "makedirs" =>
        LET raws == RunOrderItems(outcomes)
        IN  /\ \A i \in 1..Len(raws) :
                  IsValid(raws[i]) => IdOf(raws[i]) \in IdsIn(final_opportunities)
            /\ \A j \in 1..Len(final_opportunities) :
                  /\ \E i \in 1..Len(raws) :
                        IsValid(raws[i]) /\ IdOf(raws[i]) = final_opportunities[j]["id"]
                  /\ \E d \in {StartDay, NextDay(StartDay)} :
                        final_opportunities[j] =
                            normalize_opportunity(
                                raws[FirstValidIndex(raws, final_opportunities[j]["id"])], d)

\* C10 witness: the first collector returned an invalid record and then a
\* valid one with the same id, the second collector another valid record with
\* that id; the dataset holds the first collector's valid record
C10_Witness_InvalidDoesNotShadow ==
    /\ output_data # NoData
    /\ Len(outcomes) = 2
    /\ Len(outcomes[1].items) = 2
    /\ Len(outcomes[2].items) = 1
    /\ ~IsValid(outcomes[1].items[1])
    /\ IsValid(outcomes[1].items[2])
    /\ IsValid(outcomes[2].items[1])
    /\ IdOf(outcomes[1].items[1]) = IdOf(outcomes[1].items[2])
    /\ IdOf(outcomes[2].items[1]) = IdOf(outcomes[1].items[2])
    /\ outcomes[2].items[1]["title"] # outcomes[1].items[2]["title"]
    /\ Len(final_opportunities) = 1
    /\ final_opportunities[1]["title"] = outcomes[1].items[2]["title"]

\* a step of the write_json call of this run has failed
WriteStepFailed ==
    \/ res.op = "write_json_raised"
    \/ res.op = "write_json" /\ res.out = <<FALSE>>

\* C11: whenever a step of write_json has failed (makedirs, mkstemp, the dump
\* or the rename), write_json has returned False to main instead of raising,
\* and the temp file of the call is gone.
C11_FailedWriteReturnsFalseNoTemp ==
    WriteStepFailed => (res.op = "write_json" /\ fs.temp = NoFile)

\* C12: no exception leaves the aggregation pipeline.  For raw records whose
\* values are strings, booleans or null, aggregate_opportunities and
\* get_sources return, and every valid record of the input has its id in the
\* list aggregate_opportunities returns, whatever the other records are.
C12_PipelineNeverRaises ==
    /\ res.op # "aggregate_raised"
    /\ res.op # "get_sources_raised"
    /\ res.op = "aggregate" =>
          \A i \in 1..Len(arg) : IsValid(arg[i]) => IdOf(arg[i]) \in IdsIn(res.out)

\* a KeyboardInterrupt has reached the run before its write completed: in a
\* collector (whether or not the collector caught it), or in main
InterruptedBeforeWritten ==
    \/ \E i \in 1..Len(outcomes) : outcomes[i].kind \in {"interrupt", "interrupted"}
    \/ exit_code = 130

\* C13: interrupt safety.  Once a KeyboardInterrupt has reached a run before
\* its write completed, the target file stays what it was when the run
\* started, and when the process has exited its status is 130.
C13_InterruptLeavesSnapshotExits130 ==
    InterruptedBeforeWritten =>
        /\ fs.target = previous
        /\ pc = "exited" => exit_code = 130

\* C14: the exit status reflects the write.  A run that found a collector and
\* came to the end of main exits with 0 exactly when write_json returned True,
\* and a run whose write failed exits with a status other than 0.
C14_ExitZeroIffWritten ==
    (pc = "exited" /\ scrapers # <<>>) =>
        /\ res.op = "write_json" => (exit_code = 0 <=> res.out = <<TRUE>>)
        /\ WriteStepFailed => exit_code # 0

\* C14 witness: the rename failed, write_json removed its temp file and
\* returned False, and the run ended with status 1 and the old snapshot
C14_Witness_FailedWriteExitsOne ==
    /\ pc = "exited"
    /\ res = [op |-> "write_json", out |-> <<FALSE>>]
    /\ exit_code = 1
    /\ fs.temp = NoFile
    /\ previous = File(OldSnapshot, DumpChunks)
    /\ fs.target = previous
    /\ Len(final_opportunities) = 1

\* C15: when discover_scrapers finds no collector, main exits at once with a
\* status other than 0: no collector has run, nothing was aggregated,
\* write_json was not called, and the files are as the run found them.
C15_NoCollectorsExitsUntouched ==
    (pc # "main" /\ scrapers = <<>>) =>
        /\ pc = "exited"
        /\ exit_code # 0
        /\ outcomes = <<>>
        /\ output_data = NoData
        /\ res = NoCall
        /\ fs = [dir |-> previous.exists, target |-> previous, temp |-> NoFile]

\* C15 witness: no collector was found while a snapshot existed; the run has
\* exited with 1 and the snapshot is in place
C15_Witness_NoneFoundSnapshotKept ==
    /\ pc = "exited"
    /\ scrapers = <<>>
    /\ exit_code = 1
    /\ previous = File(OldSnapshot, DumpChunks)
    /\ fs.target = previous

\* the ids of the valid records among the collectors' outputs of this run
RunIds ==
    {IdOf(RunOrderItems(outcomes)[i]) :
        i \in {j \in 1..Len(RunOrderItems(outcomes)) : IsValid(RunOrderItems(outcomes)[j])}}

\* C16: full replacement.  After a run whose write succeeded, whatever
\* snapshot an earlier run had left, the target file is the complete document
\* of this run: its records are the ones aggregated from this run's collector
\* outputs, its statistics are for this run's collectors only, and no record
\* of the earlier snapshot is in it.
C16_SnapshotIsThisRunOnly ==
    success =>
        /\ fs.target = File(output_data, DumpChunks)
        /\ output_data.opportunities = final_opportunities
        /\ IdsIn(output_data.opportunities) = RunIds
        /\ output_data.scraper_stats = scraper_stats
        /\ DOMAIN scraper_stats = {scrapers[i] : i \in 1..Len(scrapers)}
        /\ \A i \in 1..Len(output_data.opportunities) :
              output_data.opportunities[i] # OldRecord

\* C16 witness: a run with one surviving record has replaced an earlier
\* snapshot that held another record and another collector's statistics
C16_Witness_OldSnapshotReplaced ==
    /\ success
    /\ previous = File(OldSnapshot, DumpChunks)
    /\ fs.target # previous
    /\ Len(fs.target.doc[1].opportunities) = 1
    /\ "example_scraper" \notin DOMAIN fs.target.doc[1].scraper_stats

\* the sum of the counts of the first n collectors
RECURSIVE SumCounts(_, _)
SumCounts(stats, n) ==
    IF n = 0 THEN 0 ELSE SumCounts(stats, n - 1) + stats[scrapers[n]]

\* C17: the scraper_stats of the snapshot main builds has an entry for every
\* collector that was run, failed ones included; the count of an entry is the
\* number of raw items the collector returned (0 for one that failed),
\* whatever became of them, so the counts add up to at least total_count.
C17_StatsCountRawItems ==
    output_data # NoData =>
        LET stats == output_data.scraper_stats
        IN  /\ Len(outcomes) = Len(scrapers)
            /\ DOMAIN stats = {scrapers[i] : i \in 1..Len(scrapers)}
            /\ \A i \in 1..Len(outcomes) :
                  /\ stats[outcomes[i].name] = Len(outcomes[i].items)
                  /\ outcomes[i].kind \in FailureKinds => stats[outcomes[i].name] = 0
            /\ SumCounts(stats, Len(scrapers)) >= output_data.total_count

\* C17 witness: one collector failed and the other returned three records of
\* which one survived; the counts are 0 and 3
C17_Witness_FailedZeroRawThree ==
    /\ output_data # NoData
    /\ Len(outcomes) = 2
    /\ outcomes[1].kind \in FailureKinds
    /\ output_data.scraper_stats[outcomes[1].name] = 0
    /\ output_data.scraper_stats[outcomes[2].name] = 3
    /\ output_data.total_count = 1

\* C18: in the snapshot main builds, `sources` lists exactly the `source`
\* values of the records in `opportunities`, each once, in ascending order,
\* and total_count is the number of those records.
C18_SourcesAreSortedSet ==
    output_data # NoData =>
        LET srcs == output_data.sources
            opps == output_data.opportunities
        IN  /\ {srcs[j] : j \in 1..Len(srcs)} = {opps[i]["source"] : i \in 1..Len(opps)}
            /\ \A j, k \in 1..Len(srcs) : j < k => KeyLess(srcs[j], srcs[k])
            /\ output_data.total_count = Len(opps)

\* C18 witness: two surviving records share their source, which is listed
\* once; the second collector's only record was a duplicate, and its source is
\* not listed
C18_Witness_SharedSourceOnceLoserAbsent ==
    /\ output_data # NoData
    /\ output_data.total_count = 2
    /\ output_data.sources = <<Str(<<"a">>)>>
    /\ Len(outcomes) = 2
    /\ Len(outcomes[2].items) = 1
    /\ Get(outcomes[2].items[1], "source") = Str(<<"b">>)
    /\ IsValid(outcomes[2].items[1])

\* the default the claim names for a key; date_posted and id have none
NamedDefault(k) ==
    CASE k = "type" -> Str(<<"J", "o", "b">>)
      [] k = "location" -> Str(<<"N", "a", "m", "i", "b", "i", "a">>)
      [] k = "verified" -> Bool(TRUE)
      [] OTHER -> Str(<<>>)

IsHex16(v) ==
    /\ v.t = "str"
    /\ Len(v.s) = 16
    /\ \A i \in 1..16 : v.s[i] \in HexDigits

\* C19: for every raw mapping, normalize_opportunity returns a record with
\* all ten fields; a recognized key the mapping lacks has its default (type
\* "Job", location "Namibia", verified true, organization, description and
\* url empty, date_posted the processing date); and when the mapping supplies
\* no id that is non-empty, the id is a string of 16 hex digits.
C19_DefaultsAndGeneratedId ==
    res.op = "normalize" =>
        \A i \in 1..Len(arg) :
            /\ DOMAIN res.out[i] = RequiredKeys
            /\ \A k \in RequiredKeys \ (DOMAIN arg[i] \cup {"id", "date_posted"}) :
                  res.out[i][k] = NamedDefault(k)
            /\ "date_posted" \notin DOMAIN arg[i] =>
                  res.out[i]["date_posted"] \in {Str(StartDay), Str(NextDay(StartDay))}
            /\ ~SuppliesId(arg[i]) => IsHex16(res.out[i]["id"])

\* C19 witness: a mapping with a title and a source only came back with the
\* defaults and a generated id
C19_Witness_TitleAndSourceOnly ==
    /\ res.op = "normalize"
    /\ Len(arg) = 1
    /\ arg[1] = [title |-> Str(<<"a">>), source |-> Str(<<"a">>)]
    /\ res.out[1]["type"] = Str(<<"J", "o", "b">>)
    /\ res.out[1]["location"] = Str(<<"N", "a", "m", "i", "b", "i", "a">>)
    /\ res.out[1]["verified"] = Bool(TRUE)
    /\ Len(res.out[1]["id"].s) = 16

\* a value of another shape than the key's default: a string where verified
\* wants a boolean, anything but a string for the other keys
UnexpectedShape(k, v) == IF k = "verified" THEN v.t # "bool" ELSE v.t # "str"

\* C20: where a raw record holds a value of an unexpected shape for a
\* recognized key, normalize_opportunity puts the key's default in its place
\* (for date_posted the processing date; the id, which is generated, aside).
C20_UnexpectedShapeBecomesDefault ==
    res.op = "normalize" =>
        \A i \in 1..Len(arg) :
            \A k \in (DOMAIN arg[i] \cap RequiredKeys) \ {"id"} :
                UnexpectedShape(k, arg[i][k]) =>
                    IF k = "date_posted"
                    THEN res.out[i][k] \in {Str(StartDay), Str(NextDay(StartDay))}
                    ELSE res.out[i][k] = NamedDefault(k)

\* the four kinds of opportunity (get_opportunity_type's return values)
OpportunityTypes ==
    {Str(<<"J", "o", "b">>),
     Str(<<"T", "r", "a", "i", "n", "i", "n", "g">>),
     Str(<<"S", "c", "h", "o", "l", "a", "r", "s", "h", "i", "p">>),
     Str(<<"I", "n", "t", "e", "r", "n", "s", "h", "i", "p">>)}

\* C21: every record of the list aggregate_opportunities returns has a `type`
\* that is one of Job, Training, Scholarship, Internship, whatever `type` the
\* raw record carried.
C21_TypeIsOneOfFourKinds ==
    res.op = "aggregate" =>
        \A i \in 1..Len(res.out) : res.out[i]["type"] \in OpportunityTypes

\* C22: normalize_opportunity is a function of its input alone: two calls
\* with equal raw mappings return equal records, whenever they are made, a
\* raw mapping without date_posted included.
C22_EqualInputsEqualRecords ==
    (res.op = "normalize" /\ Len(arg) = 2 /\ arg[1] = arg[2])
    => res.out[1] = res.out[2]

\* a string of the form YYYY-MM-DD
IsIsoDate(v) ==
    /\ v.t = "str"
    /\ Len(v.s) = 10
    /\ \A i \in {1, 2, 3, 4, 6, 7, 9, 10} : v.s[i] \in Digits
    /\ v.s[5] = "-" /\ v.s[8] = "-"

\* C23: extract_date always produces a value: for every text, the empty text
\* and a text that matches no pattern included, it returns a YYYY-MM-DD
\* string, never no value.
C23_ExtractDateAlwaysADate ==
    res.op = "extract_date" => IsIsoDate(res.out[1])

\* the text holds a tag: a '<', one or more characters other than '>', a '>'
HasTag(s) ==
    \E i, j \in 1..Len(s) :
        /\ s[i] = "<" /\ s[j] = ">" /\ j >= i + 2
        /\ \A k \in (i + 1)..(j - 1) : s[k] # ">"

\* C24: the text clean_text returns holds no tag, no carriage return or
\* non-breaking space, no two whitespace characters in a row and no
\* whitespace at either end; cleaning it again gives the same text.
C24_CleanTextNormalized ==
    res.op = "clean_text" =>
        LET out == res.out[1].s
        IN  /\ ~HasTag(out)
            /\ \A i \in 1..Len(out) : out[i] \notin {CR, NBSP}
            /\ \A i \in 1..(Len(out) - 1) : ~(out[i] \in Whitespace /\ out[i + 1] \in Whitespace)
            /\ out # <<>> => (out[1] \notin Whitespace /\ out[Len(out)] \notin Whitespace)
            /\ clean_text(out) = out

\* C24 witness: the text of test_setup.py's check, with one letter per word:
\* "  a   b\n\n  " came back as "a b"
C24_Witness_HelloWorld ==
    /\ res.op = "clean_text"
    /\ arg = <<Str(<<" ", " ", "a", " ", " ", " ", "b", LF, LF, " ", " ">>)>>
    /\ res.out = <<Str(<<"a", " ", "b">>)>>

\* the two raw records differ in source, title or url by more than letter
\* case (a key a record lacks counts as the empty string, its default)
TriplesDiffer(r1, r2) ==
    \E k \in {"source", "title", "url"} :
        LowerValue(GetOr(r1, k, Str(<<>>))) # LowerValue(GetOr(r2, k, Str(<<>>)))

\* C25: two raw records without a supplied id whose (source, title, url)
\* differ in some component by more than letter case get different ids from
\* normalize_opportunity, and aggregate_opportunities keeps both when both are
\* valid; also when source or title hold a '_'.
C25_DifferentTriplesDifferentIds ==
    (/\ Len(arg) = 2
     /\ arg \in LibInputs
     /\ ~SuppliesId(arg[1]) /\ ~SuppliesId(arg[2])
     /\ TriplesDiffer(arg[1], arg[2]))
    => /\ res.op = "normalize" => res.out[1]["id"] # res.out[2]["id"]
       /\ (res.op = "aggregate" /\ IsValid(arg[1]) /\ IsValid(arg[2])) => Len(res.out) = 2

\* every collector that was run failed (in one of the ways run_scraper
\* reports, or by ending in SystemExit) or returned no items
EveryCollectorEmpty ==
    /\ scrapers # <<>>
    /\ outcomes # <<>>
    /\ \A i \in 1..Len(outcomes) :
          /\ outcomes[i].kind \in FailureKinds \cup {"system_exit"} \cup ReturnKinds
          /\ outcomes[i].items = <<>>

\* C26: a run in which every collector failed or returned no items, and which
\* the user did not interrupt, has called write_json by the time it exits,
\* with a snapshot whose total_count is 0 and whose opportunities and sources
\* are empty; when that write succeeded the snapshot has replaced whatever
\* the target held and the exit status is 0.
C26_EmptyRunStillWrites ==
    (pc = "exited" /\ exit_code # 130 /\ EveryCollectorEmpty) =>
        /\ res.op \in {"write_json", "write_json_raised"}
        /\ output_data # NoData
        /\ output_data.total_count = 0
        /\ output_data.opportunities = <<>>
        /\ output_data.sources = <<>>
        /\ success => (fs.target = File(output_data, DumpChunks) /\ exit_code = 0)

\* C27: in a writable location write_json succeeds for every target path, a
\* bare file name included: it returns True, the target's directory exists
\* afterwards (created when it was missing), and the target holds the full
\* document.
C27_WriteSucceedsForEveryPath ==
    (pc = "returned" /\ res.op = "write_json") =>
        /\ res.out = <<TRUE>>
        /\ fs.dir
        /\ fs.target = File(arg[1].data, DumpChunks)

====
